---- MODULE Spec2Model ----
(***************************************************************************)
(* Model of stactools.amazonia_1.stac: create_item and the extractor       *)
(* _get_keys_from_cbers_am.  Text is modelled by TLA+ strings (character   *)
(* access through SubSeq), so that regular expressions, int(), "%03d" and  *)
(* string concatenation are computed on the characters as Python computes  *)
(* them.  Floating-point numbers are modelled by exact integers counting   *)
(* quarter units (see FloatVal / FloatStr below).                          *)
(***************************************************************************)
EXTENDS Integers, Sequences, FiniteSets, TLC

(***************************************************************************)
(* Characters and character classes                                        *)
(***************************************************************************)
Ch(s, i) == SubSeq(s, i, i)

Digit == {"0", "1", "2", "3", "4", "5", "6", "7", "8", "9"}

Letter ==
    {"A", "B", "C", "D", "E", "F", "G", "H", "I", "J", "K", "L", "M",
     "N", "O", "P", "Q", "R", "S", "T", "U", "V", "W", "X", "Y", "Z",
     "a", "b", "c", "d", "e", "f", "g", "h", "i", "j", "k", "l", "m",
     "n", "o", "p", "q", "r", "s", "t", "u", "v", "w", "x", "y", "z"}

\* \w of Python's re on str patterns, restricted to ASCII
WordChar == Letter \cup Digit \cup {"_"}

\* [^\W_]
AlnumChar == Letter \cup Digit

\* characters the model's texts are written with; "." of a pattern matches
\* any of them (no text of the model holds a newline)
AnyChar == WordChar \cup {".", "-", ":", "+", " ", "/"}

Max(S) == CHOOSE m \in S : \A n \in S : n <= m

Min(S) == CHOOSE m \in S : \A n \in S : m <= n

(***************************************************************************)
(* A regular expression is a sequence of items; each item is one of        *)
(*   plus: one or more characters of a class, greedy                       *)
(*   rep : exactly n characters of a class                                 *)
(*   lit : a literal text                                                  *)
(*   alt : one of several literal texts, tried in order                    *)
(*   opt : optionally one of several literal texts, tried in order, the    *)
(*         empty match last                                                *)
(***************************************************************************)
Plus(c) == [t |-> "plus", cls |-> c, n |-> 1, alts |-> <<>>]

Rep(c, k) == [t |-> "rep", cls |-> c, n |-> k, alts |-> <<>>]

Lit(l) == [t |-> "alt", cls |-> {}, n |-> 0, alts |-> <<l>>]

Alt(a) == [t |-> "alt", cls |-> {}, n |-> 0, alts |-> a]

Opt(a) == [t |-> "opt", cls |-> {}, n |-> 0, alts |-> a]

\* does the literal l stand in s right after position i
LitAt(s, i, l) == i + Len(l) <= Len(s) /\ SubSeq(s, i + 1, i + Len(l)) = l

\* are the characters i+1 .. j of s all in cls
AllIn(s, i, j, cls) == \A k \in (i + 1)..j : Ch(s, k) \in cls

\* the end of the longest stretch of characters of cls that starts right
\* after position i
RECURSIVE RunEnd(_, _, _)
RunEnd(s, i, cls) ==
    IF i < Len(s) /\ Ch(s, i + 1) \in cls THEN RunEnd(s, i + 1, cls) ELSE i

\* the positions at which the item can end when it starts right after i
StepEnds(item, s, i) ==
    CASE item.t = "plus" -> (i + 1)..RunEnd(s, i, item.cls)
      [] item.t = "rep" ->
            IF RunEnd(s, i, item.cls) >= i + item.n THEN {i + item.n} ELSE {}
      [] item.t = "alt" ->
            {i + Len(item.alts[a]) : a \in {b \in DOMAIN item.alts : LitAt(s, i, item.alts[b])}}
      [] item.t = "opt" ->
            {i} \cup
            {i + Len(item.alts[a]) : a \in {b \in DOMAIN item.alts : LitAt(s, i, item.alts[b])}}

\* the positions at which items k .. Len(re) can end when they start at one
\* of the positions starts
RECURSIVE EndsFrom(_, _, _, _)
EndsFrom(re, k, s, starts) ==
    IF k > Len(re) \/ starts = {} THEN starts
    ELSE EndsFrom(re, k + 1, s, UNION {StepEnds(re[k], s, i) : i \in starts})

\* can items k .. Len(re) match some stretch of s that starts right after i
\* (the match need not reach the end of s)
CanMatchAt(re, k, s, i) == EndsFrom(re, k, s, {i}) # {}

\* the end the backtracking matcher settles on for item k started at i,
\* among the ends ok from which the rest of the pattern matches: the
\* longest for a greedy class, the first alternative in order for alt / opt
\* (the empty match last)
PickEnd(item, s, i, ok) ==
    CASE item.t = "plus" -> Max(ok)
      [] item.t = "rep" -> Max(ok)
      [] OTHER ->
            LET hits == {a \in DOMAIN item.alts :
                            LitAt(s, i, item.alts[a]) /\ (i + Len(item.alts[a])) \in ok}
            IN  IF hits # {} THEN i + Len(item.alts[Min(hits)]) ELSE i

\* the end positions of items k .. Len(re) in the match found from position
\* i; defined when CanMatchAt(re, k, s, i)
RECURSIVE MatchPath(_, _, _, _)
MatchPath(re, k, s, i) ==
    IF k > Len(re) THEN <<>>
    ELSE LET ok == {j \in StepEnds(re[k], s, i) : CanMatchAt(re, k + 1, s, j)}
             j == PickEnd(re[k], s, i, ok)
         IN  <<j>> \o MatchPath(re, k + 1, s, j)

\* re.match(s): a match anchored at the start of s only
ReMatches(re, s) == CanMatchAt(re, 1, s, 0)

\* the text matched by item k in re.match(s) ("" for an optional item that
\* matched nothing); defined when ReMatches(re, s)
ReGroup(re, k, s) ==
    LET p == MatchPath(re, 1, s, 0)
        from == IF k = 1 THEN 0 ELSE p[k - 1]
    IN  SubSeq(s, from + 1, p[k])

(***************************************************************************)
(* Numbers and their texts.  A float is modelled by the integer count of   *)
(* quarter units it holds (4 per unit), so that every value the            *)
(* model reads and every mean of two of them is exact, as it is in binary  *)
(* floating point for these values.                                        *)
(***************************************************************************)
DigitVal(c) ==
    CASE c = "0" -> 0 [] c = "1" -> 1 [] c = "2" -> 2 [] c = "3" -> 3 [] c = "4" -> 4
      [] c = "5" -> 5 [] c = "6" -> 6 [] c = "7" -> 7 [] c = "8" -> 8 [] c = "9" -> 9

DigitCh(d) == SubSeq("0123456789", d + 1, d + 1)

IsDigits(s) == Len(s) > 0 /\ AllIn(s, 0, Len(s), Digit)

RECURSIVE DigitsVal(_)
DigitsVal(s) ==
    IF Len(s) = 0 THEN 0
    ELSE 10 * DigitsVal(SubSeq(s, 1, Len(s) - 1)) + DigitVal(Ch(s, Len(s)))

RECURSIVE NatText(_)
NatText(n) == IF n < 10 THEN DigitCh(n) ELSE NatText(n \div 10) \o DigitCh(n % 10)

RECURSIVE Pow10(_)
Pow10(k) == IF k = 0 THEN 1 ELSE 10 * Pow10(k - 1)

Abs(n) == IF n < 0 THEN 0 - n ELSE n

HasSign(s) == Len(s) > 0 /\ Ch(s, 1) \in {"-", "+"}

Unsigned(s) == IF HasSign(s) THEN SubSeq(s, 2, Len(s)) ELSE s

SignOf(s) == IF Len(s) > 0 /\ Ch(s, 1) = "-" THEN 0 - 1 ELSE 1

\* int(s) succeeds: an optional sign and decimal digits
IntOk(s) == IsDigits(Unsigned(s))

\* int(s)
IntVal(s) == SignOf(s) * DigitsVal(Unsigned(s))

\* "%03d" % n: at least three characters, zero filled, the sign counted
Fmt03d(n) ==
    LET d == NatText(Abs(n))
        w == IF n < 0 THEN 2 ELSE 3
        pad == IF Len(d) >= w THEN "" ELSE SubSeq("000", 1, w - Len(d))
    IN  (IF n < 0 THEN "-" ELSE "") \o pad \o d

\* position of the decimal point in s, 0 when there is none
DotPos(s) ==
    LET dots == {i \in 1..Len(s) : Ch(s, i) = "."}
    IN  IF dots = {} THEN 0 ELSE Min(dots)

\* float(s) succeeds: an optional sign, digits, and an optional fraction
FloatOk(s) ==
    LET u == Unsigned(s)
        p == DotPos(u)
    IN  IF p = 0 THEN IsDigits(u)
        ELSE /\ IsDigits(SubSeq(u, 1, p - 1))
             /\ IsDigits(SubSeq(u, p + 1, Len(u)))

\* float(s), in quarter units
FloatVal(s) ==
    LET u == Unsigned(s)
        p == DotPos(u)
        whole == IF p = 0 THEN u ELSE SubSeq(u, 1, p - 1)
        frac == IF p = 0 THEN "" ELSE SubSeq(u, p + 1, Len(u))
    IN  SignOf(s) * (4 * DigitsVal(whole)
                        + (4 * DigitsVal(frac)) \div Pow10(Len(frac)))

\* str(x) of a float x: the shortest text that reads back as x
FloatStr(x) ==
    LET a == Abs(x)
        frac == CASE a % 4 = 0 -> "0" [] a % 4 = 1 -> "25"
                  [] a % 4 = 2 -> "5" [] OTHER -> "75"
    IN  (IF x < 0 THEN "-" ELSE "") \o NatText(a \div 4) \o "." \o frac

\* statistics.mean([x, y]) of two floats
Mean2(x, y) == (x + y) \div 2

Min2(x, y) == IF y < x THEN y ELSE x

Max2(x, y) == IF y > x THEN y ELSE x

\* s.replace(old, "") for a one-character old
RECURSIVE RemoveChar(_, _)
RemoveChar(s, c) ==
    IF Len(s) = 0 THEN ""
    ELSE (IF Ch(s, 1) = c THEN "" ELSE Ch(s, 1)) \o RemoveChar(SubSeq(s, 2, Len(s)), c)

\* s.replace(old, new) for one-character old and new
RECURSIVE ReplaceChar(_, _, _)
ReplaceChar(s, old, new) ==
    IF Len(s) = 0 THEN ""
    ELSE (IF Ch(s, 1) = old THEN new ELSE Ch(s, 1))
             \o ReplaceChar(SubSeq(s, 2, Len(s)), old, new)

\* s.split(sep)[0]
FirstField(s, sep) ==
    LET hits == {i \in 1..Len(s) : Ch(s, i) = sep}
    IN  IF hits = {} THEN s ELSE SubSeq(s, 1, Min(hits) - 1)

\* s.split("/")[-1], which os.path.basename(s) equals on POSIX
Basename(s) ==
    LET hits == {i \in 1..Len(s) : Ch(s, i) = "/"}
    IN  IF hits = {} THEN s ELSE SubSeq(s, Max(hits) + 1, Len(s))

(***************************************************************************)
(* Static tables                                                           *)
(***************************************************************************)
TIF_XML_REGEX ==
    <<Plus(WordChar), Lit("_"), Plus(WordChar), Lit("_"), Plus(WordChar), Lit("_"),
      Rep(Digit, 8), Lit("_"), Rep(Digit, 3), Lit("_"), Rep(Digit, 3), Lit("_"),
      Plus(AlnumChar), Opt(<<"_LEFT", "_RIGHT">>), Lit("_BAND"), Plus(Digit),
      Lit("."), Alt(<<"tif", "xml">>)>>

\* index of the optics group among the items of TIF_XML_REGEX
OpticsGroup == Len(TIF_XML_REGEX) - 4

\* CBERS_AM_MISSIONS, the entries create_item reads
CBERS_AM_MISSIONS ==
    [k \in {"CBERS-4", "CBERS-4A", "AMAZONIA-1"} |->
        [international_designator |->
            CASE k = "CBERS-4" -> "2014-079A"
              [] k = "CBERS-4A" -> "2019-093E"
              [] k = "AMAZONIA-1" -> "2021-015A"]]

\* BASE_CAMERA[sat][sensor]["summaries"]["gsd"]
BASE_CAMERA ==
    [k \in {"CBERS4", "CBERS4A", "AMAZONIA1"} |->
        CASE k = "CBERS4" ->
                [c \in {"MUX", "AWFI", "PAN5M", "PAN10M"} |->
                    [gsd |-> CASE c = "MUX" -> <<FloatVal("20.0")>>
                               [] c = "AWFI" -> <<FloatVal("64.0")>>
                               [] c = "PAN5M" -> <<FloatVal("5.0")>>
                               [] c = "PAN10M" -> <<FloatVal("10.0")>>]]
          [] k = "CBERS4A" ->
                [c \in {"MUX", "WFI", "WPM"} |->
                    [gsd |-> CASE c = "MUX" -> <<FloatVal("16.5")>>
                               [] c = "WFI" -> <<FloatVal("55.0")>>
                               [] c = "WPM" -> <<FloatVal("2.0"), FloatVal("8.0")>>]]
          [] k = "AMAZONIA1" ->
                [c \in {"WFI"} |-> [gsd |-> <<FloatVal("64.0")>>]]]

(***************************************************************************)
(* The XML document.  A subtree (the root's own children, the leftCamera   *)
(* element or the rightCamera element) is a record of the texts of the     *)
(* elements the extractor reads; Absent stands for an element that is not  *)
(* there.  kind tells what find() returned for the subtree's element:      *)
(* "none" (no such element), "empty" (an element without children, which  *)
(* Python takes as false) or "tree".                                       *)
(***************************************************************************)
Absent == "<absent>"

Has_Defaulted(x) == TRUE

Has(x) == x # Absent

Corners4 == {"UL", "UR", "LR", "LL"}

Corners5 == Corners4 \cup {"CT"}

NoPoint == [latitude |-> Absent, longitude |-> Absent]

NoSub(k) ==
    [kind |-> k,
     name |-> Absent, number |-> Absent, instrument |-> Absent,
     path |-> Absent, row |-> Absent, level |-> Absent,
     verticalPixelSize |-> Absent, horizontalPixelSize |-> Absent,
     projectionName |-> Absent, originLatitude |-> Absent, originLongitude |-> Absent,
     imageData |-> [c \in Corners5 |-> NoPoint],
     boundingBox |-> [c \in Corners4 |-> NoPoint],
     sunPosition |-> [elevation |-> Absent, sunAzimuth |-> Absent],
     hasAttitudes |-> FALSE, attitudes |-> <<>>,
     hasEphemerides |-> FALSE, ephemerides |-> <<>>,
     hasBands |-> FALSE, availableBands |-> <<>>,
     center |-> Absent]

PointHas(p) == Has(p.latitude) /\ Has(p.longitude)

(***************************************************************************)
(* _get_keys_from_cbers_am, after the file name matched and the document   *)
(* parsed                                                                  *)
(***************************************************************************)
\* lines 425-432: "if left_root" is true for an element with children only
IsDual_NeedsBoth(doc) == doc.leftCamera.kind = "tree" /\ doc.rightCamera.kind = "tree"

IsDual(doc) == doc.leftCamera.kind = "tree"

PrimaryRoot(doc) == IF IsDual(doc) THEN doc.leftCamera ELSE doc.own

_build_collection_name(satellite, camera, mission) ==
    IF mission = "" THEN satellite \o "-" \o camera
    ELSE satellite \o mission \o "-" \o camera

\* the first failure of a sequence of checks, "" when none fails; a check is
\* a pair <<holds, error>>
RECURSIVE FirstError(_)
FirstError(checks) ==
    IF Len(checks) = 0 THEN ""
    ELSE IF ~Head(checks)[1] THEN Head(checks)[2]
         ELSE FirstError(Tail(checks))

\* float(l.text) then float(r.text) for the two halves' element e, in the
\* order Python evaluates them
PairChecks(l, r) ==
    <<  <<FloatOk(l), "ValueError">>,
        <<Has(r), "AttributeError">>,
        <<FloatOk(r), "ValueError">>  >>

\* the error _get_keys_from_cbers_am ends with, "" when it returns
ExtractError(doc) ==
    LET root == PrimaryRoot(doc)
        l == doc.leftCamera
        r == doc.rightCamera
        base ==
            <<  <<Has(root.name) /\ Has(root.number) /\ Has(root.instrument), "AttributeError">>,
                <<Has(root.path) /\ Has(root.row) /\ Has(root.level), "AttributeError">>,
                <<Has(root.verticalPixelSize) /\ Has(root.horizontalPixelSize), "AttributeError">>,
                <<Has(root.projectionName), "AttributeError">>,
                <<Has(root.originLatitude) /\ Has(root.originLongitude), "AttributeError">>,
                <<\A c \in Corners5 : PointHas(root.imageData[c]), "AttributeError">>,
                <<\A c \in Corners4 : PointHas(root.boundingBox[c]), "AttributeError">>,
                <<Has(root.sunPosition.elevation) /\ Has(root.sunPosition.sunAzimuth),
                  "AttributeError">>  >>
        merge ==
            IF ~IsDual(doc) THEN <<>>
            ELSE <<  <<r.kind # "none", "AttributeError">>,
                     <<PointHas(r.imageData["UR"]) /\ PointHas(r.imageData["LR"]),
                       "AttributeError">>  >>
                 \o PairChecks(l.imageData["CT"].latitude, r.imageData["CT"].latitude)
                 \o PairChecks(l.imageData["CT"].longitude, r.imageData["CT"].longitude)
                 \o PairChecks(l.sunPosition.elevation, r.sunPosition.elevation)
                 \o PairChecks(l.sunPosition.sunAzimuth, r.sunPosition.sunAzimuth)
                 \o PairChecks(l.boundingBox["LL"].latitude, r.boundingBox["LL"].latitude)
                 \o PairChecks(l.boundingBox["LL"].longitude, r.boundingBox["LL"].longitude)
                 \o PairChecks(l.boundingBox["UR"].latitude, r.boundingBox["UR"].latitude)
                 \o PairChecks(l.boundingBox["UR"].longitude, r.boundingBox["UR"].longitude)
        rest ==
            <<  <<root.hasAttitudes, "AttributeError">>,
                <<\/ root.attitudes = <<>>
                  \/ Has(Head(root.attitudes)), "AttributeError">>,
                <<root.hasEphemerides, "AttributeError">>,
                <<\/ root.ephemerides = <<>>
                  \/ Has(Head(root.ephemerides)), "AttributeError">>,
                <<root.hasBands, "AttributeError">>,
                <<Has(root.center), "AttributeError">>,
                <<IntOk(root.path), "ValueError">>,
                <<IntOk(root.row), "ValueError">>  >>
    IN  FirstError(base \o merge \o rest)

\* re.sub(re, "", s): every leftmost non-overlapping match removed (no
\* pattern of the model matches the empty text)
RECURSIVE ReSubFrom(_, _, _)
ReSubFrom(re, s, i) ==
    IF i >= Len(s) THEN ""
    ELSE IF CanMatchAt(re, 1, s, i)
         THEN ReSubFrom(re, s, MatchPath(re, 1, s, i)[Len(re)])
         ELSE Ch(s, i + 1) \o ReSubFrom(re, s, i + 1)

ReSub(re, s) == ReSubFrom(re, s, 0)

\* r"(_LEFT|_RIGHT)?_BAND\d+.xml" of line 605
BAND_SUFFIX_REGEX ==
    <<Opt(<<"_LEFT", "_RIGHT">>), Lit("_BAND"), Plus(Digit), Rep(AnyChar, 1), Lit("xml")>>

\* lines 562-564 and 568-570: the loop stops after the first record
FirstRecord_Last(records) == records[Len(records)]

FirstRecord(records) == Head(records)

\* lines 434-483 and 560-583: the texts read from the primary root
BaseKeys(root, match_optics) ==
    [mission |-> root.name,
     number |-> root.number,
     sensor |-> root.instrument,
     collection |-> _build_collection_name(root.name, root.instrument, root.number),
     optics |-> match_optics,
     path |-> root.path,
     row |-> root.row,
     processing_level |-> root.level,
     vertical_pixel_size |-> root.verticalPixelSize,
     horizontal_pixel_size |-> root.horizontalPixelSize,
     projection_name |-> root.projectionName,
     origin_latitude |-> root.originLatitude,
     origin_longitude |-> root.originLongitude,
     ul_lat |-> root.imageData["UL"].latitude,
     ul_lon |-> root.imageData["UL"].longitude,
     ur_lat |-> root.imageData["UR"].latitude,
     ur_lon |-> root.imageData["UR"].longitude,
     lr_lat |-> root.imageData["LR"].latitude,
     lr_lon |-> root.imageData["LR"].longitude,
     ll_lat |-> root.imageData["LL"].latitude,
     ll_lon |-> root.imageData["LL"].longitude,
     ct_lat |-> root.imageData["CT"].latitude,
     ct_lon |-> root.imageData["CT"].longitude,
     bb_ul_lat |-> root.boundingBox["UL"].latitude,
     bb_ul_lon |-> root.boundingBox["UL"].longitude,
     bb_ur_lat |-> root.boundingBox["UR"].latitude,
     bb_ur_lon |-> root.boundingBox["UR"].longitude,
     bb_lr_lat |-> root.boundingBox["LR"].latitude,
     bb_lr_lon |-> root.boundingBox["LR"].longitude,
     bb_ll_lat |-> root.boundingBox["LL"].latitude,
     bb_ll_lon |-> root.boundingBox["LL"].longitude,
     sun_elevation |-> root.sunPosition.elevation,
     sun_azimuth |-> root.sunPosition.sunAzimuth,
     \* the loops of lines 562-570 set the key from the first record only,
     \* and leave it unset when there is no record
     has_roll |-> root.attitudes # <<>>,
     roll |-> IF root.attitudes # <<>> THEN FirstRecord(root.attitudes) ELSE Absent,
     has_vz |-> root.ephemerides # <<>>,
     vz |-> IF root.ephemerides # <<>> THEN FirstRecord(root.ephemerides) ELSE Absent,
     bands |-> [i \in DOMAIN root.availableBands |-> root.availableBands[i].text],
     band_gain |-> [i \in DOMAIN root.availableBands |-> root.availableBands[i].gain],
     acquisition_date |-> ReplaceChar(root.center, "T", " "),
     acquisition_day |-> FirstField(ReplaceChar(root.center, "T", " "), " ")]

\* lines 487-492: the east corners come from the right camera
MergeCorners_Left(md, l, r) == md

MergeCorners(md, l, r) ==
    [md EXCEPT !.ur_lat = r.imageData["UR"].latitude,
               !.ur_lon = r.imageData["UR"].longitude,
               !.lr_lat = r.imageData["LR"].latitude,
               !.lr_lon = r.imageData["LR"].longitude]

\* lines 493-529: centre and sun angles are the means of the two halves
MergeCenterSun_Left(md, l, r) ==
    [md EXCEPT !.ct_lat = FloatStr(FloatVal(l.imageData["CT"].latitude)),
               !.ct_lon = FloatStr(FloatVal(l.imageData["CT"].longitude)),
               !.sun_elevation = FloatStr(FloatVal(l.sunPosition.elevation)),
               !.sun_azimuth = FloatStr(FloatVal(l.sunPosition.sunAzimuth))]

MergeCenterSun(md, l, r) ==
    [md EXCEPT !.ct_lat = FloatStr(Mean2(FloatVal(l.imageData["CT"].latitude),
                                         FloatVal(r.imageData["CT"].latitude))),
               !.ct_lon = FloatStr(Mean2(FloatVal(l.imageData["CT"].longitude),
                                         FloatVal(r.imageData["CT"].longitude))),
               !.sun_elevation = FloatStr(Mean2(FloatVal(l.sunPosition.elevation),
                                                FloatVal(r.sunPosition.elevation))),
               !.sun_azimuth = FloatStr(Mean2(FloatVal(l.sunPosition.sunAzimuth),
                                              FloatVal(r.sunPosition.sunAzimuth)))]

\* lines 531-558: the bounding box covers both halves
MergeBBox_LeftOnly(md, l, r) == md

MergeBBox_Swapped(md, l, r) ==
    [md EXCEPT !.bb_ll_lat = FloatStr(Max2(FloatVal(l.boundingBox["LL"].latitude),
                                           FloatVal(r.boundingBox["LL"].latitude))),
               !.bb_ll_lon = FloatStr(Max2(FloatVal(l.boundingBox["LL"].longitude),
                                           FloatVal(r.boundingBox["LL"].longitude))),
               !.bb_ur_lat = FloatStr(Min2(FloatVal(l.boundingBox["UR"].latitude),
                                           FloatVal(r.boundingBox["UR"].latitude))),
               !.bb_ur_lon = FloatStr(Min2(FloatVal(l.boundingBox["UR"].longitude),
                                           FloatVal(r.boundingBox["UR"].longitude)))]

MergeBBox(md, l, r) ==
    [md EXCEPT !.bb_ll_lat = FloatStr(Min2(FloatVal(l.boundingBox["LL"].latitude),
                                           FloatVal(r.boundingBox["LL"].latitude))),
               !.bb_ll_lon = FloatStr(Min2(FloatVal(l.boundingBox["LL"].longitude),
                                           FloatVal(r.boundingBox["LL"].longitude))),
               !.bb_ur_lat = FloatStr(Max2(FloatVal(l.boundingBox["UR"].latitude),
                                           FloatVal(r.boundingBox["UR"].latitude))),
               !.bb_ur_lon = FloatStr(Max2(FloatVal(l.boundingBox["UR"].longitude),
                                           FloatVal(r.boundingBox["UR"].longitude)))]

\* lines 586-613: the derived fields
NoLevelId(md) ==
    md.mission \o "_" \o md.number \o "_" \o md.sensor \o "_"
        \o RemoveChar(md.acquisition_day, "-") \o "_"
        \o Fmt03d(IntVal(md.path)) \o "_" \o Fmt03d(IntVal(md.row))

DownloadUrl(md, cb_am_metadata) ==
    md.mission \o md.number \o "/" \o md.sensor \o "/"
        \o Fmt03d(IntVal(md.path)) \o "/" \o Fmt03d(IntVal(md.row)) \o "/"
        \o ReSub(BAND_SUFFIX_REGEX, Basename(cb_am_metadata))

\* the mapping _get_keys_from_cbers_am returns; defined when the file name
\* matches and ExtractError(doc) = ""
GetKeys(cb_am_metadata, doc) ==
    LET root == PrimaryRoot(doc)
        optics == ReGroup(TIF_XML_REGEX, OpticsGroup, Basename(cb_am_metadata))
        base == BaseKeys(root, optics)
        md == IF IsDual(doc)
              THEN MergeBBox(
                       MergeCenterSun(
                           MergeCorners(base, doc.leftCamera, doc.rightCamera),
                           doc.leftCamera, doc.rightCamera),
                       doc.leftCamera, doc.rightCamera)
              ELSE base
    IN  md @@ [no_level_id |-> NoLevelId(md),
               download_url |-> DownloadUrl(md, cb_am_metadata),
               sat_sensor |-> md.mission \o md.number \o "/" \o md.sensor,
               sat_number |-> md.mission \o "-" \o md.number,
               meta_file |-> Basename(cb_am_metadata)]

(***************************************************************************)
(* datetime.fromisoformat and datetime.isoformat, for the texts            *)
(* YYYY-MM-DD[*HH[:MM[:SS[.fff[fff]]]][(+|-)HH:MM]]: a datetime is a       *)
(* record of its fields, tzinfo being "" for a naive value and the offset  *)
(* text otherwise.                                                         *)
(***************************************************************************)
Pad(n, w) ==
    LET d == NatText(n)
    IN  (IF Len(d) >= w THEN "" ELSE SubSeq("000000", 1, w - Len(d))) \o d

\* a field of exactly w digits with a value in lo .. hi
FieldOk(s, w, lo, hi) == Len(s) = w /\ IsDigits(s) /\ DigitsVal(s) >= lo /\ DigitsVal(s) <= hi

\* the place of the UTC offset's sign in a time text, 0 when it has none
OffsetPos(t) ==
    LET signs == {i \in 1..Len(t) : Ch(t, i) \in {"+", "-"}}
    IN  IF signs = {} THEN 0 ELSE Min(signs)

OffsetPart(t) == IF OffsetPos(t) = 0 THEN "" ELSE SubSeq(t, OffsetPos(t), Len(t))

\* the time text without its offset, and its two parts around the point
TimePart(t) == IF OffsetPos(t) = 0 THEN t ELSE SubSeq(t, 1, OffsetPos(t) - 1)

ClockPart(t) ==
    IF DotPos(TimePart(t)) = 0 THEN TimePart(t)
    ELSE SubSeq(TimePart(t), 1, DotPos(TimePart(t)) - 1)

FractionPart(t) ==
    IF DotPos(TimePart(t)) = 0 THEN ""
    ELSE SubSeq(TimePart(t), DotPos(TimePart(t)) + 1, Len(TimePart(t)))

ClockOk(c) ==
    /\ Len(c) \in {2, 5, 8}
    /\ FieldOk(SubSeq(c, 1, 2), 2, 0, 23)
    /\ Len(c) >= 5 => Ch(c, 3) = ":" /\ FieldOk(SubSeq(c, 4, 5), 2, 0, 59)
    /\ Len(c) >= 8 => Ch(c, 6) = ":" /\ FieldOk(SubSeq(c, 7, 8), 2, 0, 59)

\* a fraction follows whole seconds only, and has three or six digits
FractionOk(t) ==
    DotPos(TimePart(t)) # 0 =>
        /\ Len(ClockPart(t)) = 8
        /\ Len(FractionPart(t)) \in {3, 6}
        /\ IsDigits(FractionPart(t))

OffsetOk(o) ==
    \/ o = ""
    \/ /\ Len(o) = 6
       /\ FieldOk(SubSeq(o, 2, 3), 2, 0, 23)
       /\ Ch(o, 4) = ":"
       /\ FieldOk(SubSeq(o, 5, 6), 2, 0, 59)

FromIsoOk(s) ==
    /\ Len(s) >= 10
    /\ FieldOk(SubSeq(s, 1, 4), 4, 1, 9999)
    /\ Ch(s, 5) = "-"
    /\ FieldOk(SubSeq(s, 6, 7), 2, 1, 12)
    /\ Ch(s, 8) = "-"
    /\ FieldOk(SubSeq(s, 9, 10), 2, 1, 31)
    /\ Len(s) > 10 =>
          /\ ClockOk(ClockPart(SubSeq(s, 12, Len(s))))
          /\ FractionOk(SubSeq(s, 12, Len(s)))
          /\ OffsetOk(OffsetPart(SubSeq(s, 12, Len(s))))

FromIso(s) ==
    LET t == IF Len(s) > 10 THEN SubSeq(s, 12, Len(s)) ELSE ""
        c == ClockPart(t)
        f == FractionPart(t)
    IN  [year |-> DigitsVal(SubSeq(s, 1, 4)),
         month |-> DigitsVal(SubSeq(s, 6, 7)),
         day |-> DigitsVal(SubSeq(s, 9, 10)),
         hour |-> IF Len(c) >= 2 THEN DigitsVal(SubSeq(c, 1, 2)) ELSE 0,
         minute |-> IF Len(c) >= 5 THEN DigitsVal(SubSeq(c, 4, 5)) ELSE 0,
         second |-> IF Len(c) >= 8 THEN DigitsVal(SubSeq(c, 7, 8)) ELSE 0,
         microsecond |-> IF Len(f) = 3 THEN 1000 * DigitsVal(f) ELSE DigitsVal(f),
         tzinfo |-> OffsetPart(t)]

IsoFormat(dt) ==
    Pad(dt.year, 4) \o "-" \o Pad(dt.month, 2) \o "-" \o Pad(dt.day, 2) \o "T"
        \o Pad(dt.hour, 2) \o ":" \o Pad(dt.minute, 2) \o ":" \o Pad(dt.second, 2)
        \o (IF dt.microsecond = 0 THEN "" ELSE "." \o Pad(dt.microsecond, 6))
        \o dt.tzinfo

\* str.lower()
LowerCh(c) ==
    LET up == {i \in 1..26 : Ch("ABCDEFGHIJKLMNOPQRSTUVWXYZ", i) = c}
    IN  IF up = {} THEN c ELSE Ch("abcdefghijklmnopqrstuvwxyz", Min(up))

RECURSIVE Lower(_)
Lower(s) == IF Len(s) = 0 THEN "" ELSE LowerCh(Ch(s, 1)) \o Lower(SubSeq(s, 2, Len(s)))

(***************************************************************************)
(* create_item, after _get_keys_from_cbers_am returned cbers_am            *)
(***************************************************************************)
\* r"\.\d+" of line 844
FRACTION_REGEX == <<Lit("."), Plus(Digit)>>

\* lines 842-844: the text handed to datetime.fromisoformat
DateTimeText_KeepFraction(cbers_am) ==
    ReplaceChar(cbers_am.acquisition_date, " ", "T")

DateTimeText(cbers_am) ==
    ReSub(FRACTION_REGEX, ReplaceChar(cbers_am.acquisition_date, " ", "T"))

SatKey(cbers_am) == cbers_am.mission \o cbers_am.number

\* the error create_item ends with after the extraction, "" when it returns
\* the item; the checks are in the order Python evaluates the expressions
ItemError(cbers_am) ==
    FirstError(
        <<  <<SatKey(cbers_am) \in DOMAIN BASE_CAMERA, "KeyError">>,
            <<SatKey(cbers_am) \notin DOMAIN BASE_CAMERA
                  \/ cbers_am.sensor \in DOMAIN BASE_CAMERA[SatKey(cbers_am)], "KeyError">>,
            <<FloatOk(cbers_am.sun_azimuth), "ValueError">>,
            <<FloatOk(cbers_am.sun_elevation), "ValueError">>,
            <<cbers_am.has_roll, "KeyError">>,
            <<FloatOk(cbers_am.roll), "ValueError">>,
            <<cbers_am.sat_number \in DOMAIN CBERS_AM_MISSIONS, "KeyError">>,
            <<cbers_am.has_vz, "KeyError">>,
            <<FloatOk(cbers_am.vz), "ValueError">>,
            <<FloatOk(cbers_am.ll_lon) /\ FloatOk(cbers_am.ll_lat), "ValueError">>,
            <<FloatOk(cbers_am.lr_lon) /\ FloatOk(cbers_am.lr_lat), "ValueError">>,
            <<FloatOk(cbers_am.ur_lon) /\ FloatOk(cbers_am.ur_lat), "ValueError">>,
            <<FloatOk(cbers_am.ul_lon) /\ FloatOk(cbers_am.ul_lat), "ValueError">>,
            <<FloatOk(cbers_am.bb_ll_lon) /\ FloatOk(cbers_am.bb_ll_lat), "ValueError">>,
            <<FloatOk(cbers_am.bb_ur_lon) /\ FloatOk(cbers_am.bb_ur_lat), "ValueError">>,
            <<FromIsoOk(DateTimeText(cbers_am)), "ValueError">>  >>)

\* line 824: the direction of the orbit, from the sign of the vertical velocity
OrbitState_ZeroDescending(vz) == IF FloatVal(vz) <= 0 THEN "descending" ELSE "ascending"

OrbitState(vz) == IF FloatVal(vz) < 0 THEN "descending" ELSE "ascending"

\* lines 813-815: the first ground sample distance of the sensor's summary
SummaryGsd_Last(cbers_am) ==
    BASE_CAMERA[SatKey(cbers_am)][cbers_am.sensor].gsd[
        Len(BASE_CAMERA[SatKey(cbers_am)][cbers_am.sensor].gsd)]

SummaryGsd(cbers_am) == BASE_CAMERA[SatKey(cbers_am)][cbers_am.sensor].gsd[1]

\* lines 808-825
ItemProperties(cbers_am) ==
    [platform |-> Lower(cbers_am.sat_number),
     instruments |-> <<cbers_am.sensor>>,
     gsd |-> SummaryGsd(cbers_am),
     view_sun_azimuth |-> FloatVal(cbers_am.sun_azimuth),
     view_sun_elevation |-> FloatVal(cbers_am.sun_elevation),
     view_off_nadir |-> Abs(FloatVal(cbers_am.roll)),
     sat_platform_international_designator |->
         CBERS_AM_MISSIONS[cbers_am.sat_number].international_designator,
     sat_orbit_state |-> OrbitState(cbers_am.vz)]

\* lines 827-840: the ring of geom["coordinates"][0][0], points as (lon, lat)
ItemRing_Open(cbers_am) ==
    <<  <<FloatVal(cbers_am.ll_lon), FloatVal(cbers_am.ll_lat)>>,
        <<FloatVal(cbers_am.lr_lon), FloatVal(cbers_am.lr_lat)>>,
        <<FloatVal(cbers_am.ur_lon), FloatVal(cbers_am.ur_lat)>>,
        <<FloatVal(cbers_am.ul_lon), FloatVal(cbers_am.ul_lat)>>,
        <<FloatVal(cbers_am.ul_lon), FloatVal(cbers_am.ul_lat)>>  >>

ItemRing(cbers_am) ==
    <<  <<FloatVal(cbers_am.ll_lon), FloatVal(cbers_am.ll_lat)>>,
        <<FloatVal(cbers_am.lr_lon), FloatVal(cbers_am.lr_lat)>>,
        <<FloatVal(cbers_am.ur_lon), FloatVal(cbers_am.ur_lat)>>,
        <<FloatVal(cbers_am.ul_lon), FloatVal(cbers_am.ul_lat)>>,
        <<FloatVal(cbers_am.ll_lon), FloatVal(cbers_am.ll_lat)>>  >>

\* lines 847-858
ItemId_NoPadding(cbers_am) ==
    cbers_am.mission \o "_" \o cbers_am.number \o "_" \o cbers_am.sensor \o "_"
        \o RemoveChar(cbers_am.acquisition_day, "-") \o "_"
        \o cbers_am.path \o "_" \o cbers_am.row
        \o "_L" \o cbers_am.processing_level

ItemId_NoRow(cbers_am) ==
    cbers_am.mission \o "_" \o cbers_am.number \o "_" \o cbers_am.sensor \o "_"
        \o RemoveChar(cbers_am.acquisition_day, "-") \o "_"
        \o Fmt03d(IntVal(cbers_am.path))
        \o "_L" \o cbers_am.processing_level

ItemId(cbers_am) ==
    cbers_am.mission \o "_" \o cbers_am.number \o "_" \o cbers_am.sensor \o "_"
        \o RemoveChar(cbers_am.acquisition_day, "-") \o "_"
        \o Fmt03d(IntVal(cbers_am.path)) \o "_" \o Fmt03d(IntVal(cbers_am.row))
        \o "_L" \o cbers_am.processing_level

\* lines 862-867
ItemBBox(cbers_am) ==
    <<FloatVal(cbers_am.bb_ll_lon), FloatVal(cbers_am.bb_ll_lat),
      FloatVal(cbers_am.bb_ur_lon), FloatVal(cbers_am.bb_ur_lat)>>

\* line 877
ItemEpsg(cbers_am) == 4326

\* the item create_item returns; defined when ItemError(cbers_am) = ""
BuildItem(cbers_am, asset_href) ==
    [id |-> ItemId(cbers_am),
     properties |-> ItemProperties(cbers_am),
     geometry |-> [type |-> "MultiPolygon", coordinates |-> << <<ItemRing(cbers_am)>> >>],
     bbox |-> ItemBBox(cbers_am),
     datetime |-> FromIso(DateTimeText(cbers_am)),
     proj_epsg |-> ItemEpsg(cbers_am),
     assets |-> [image |-> [href |-> asset_href, roles |-> <<"data">>]]]

(***************************************************************************)
(* The inputs of the model: a file path and what is stored under it        *)
(***************************************************************************)
\* coordinates and angles range over -MaxCoord .. MaxCoord half units
MaxCoord == 1

Point(lat, lon) == [latitude |-> lat, longitude |-> lon]

Band(t, g) == [text |-> t, gain |-> g]

\* a single-camera scene shaped like the fixture of tests/test_stac.py
BaseSub ==
    [kind |-> "tree",
     name |-> "AMAZONIA", number |-> "1", instrument |-> "WFI",
     path |-> "36", row |-> "18", level |-> "4",
     verticalPixelSize |-> "64.0", horizontalPixelSize |-> "64.0",
     projectionName |-> "UTM", originLatitude |-> "0.0", originLongitude |-> "-51.0",
     imageData |-> [c \in Corners5 |->
                       CASE c = "UL" -> Point("-14.0", "-57.0")
                         [] c = "UR" -> Point("-15.0", "-49.0")
                         [] c = "LR" -> Point("-22.0", "-50.0")
                         [] c = "LL" -> Point("-21.0", "-58.5")
                         [] c = "CT" -> Point("-18.0", "-53.5")],
     boundingBox |-> [c \in Corners4 |->
                       CASE c = "UL" -> Point("-13.5", "-59.0")
                         [] c = "UR" -> Point("-13.5", "-48.5")
                         [] c = "LR" -> Point("-22.5", "-48.5")
                         [] c = "LL" -> Point("-22.5", "-59.0")],
     sunPosition |-> [elevation |-> "50.0", sunAzimuth |-> "36.0"],
     hasAttitudes |-> TRUE, attitudes |-> <<"0.25", "-3.0">>,
     hasEphemerides |-> TRUE, ephemerides |-> <<"-100.0", "50.0">>,
     hasBands |-> TRUE, availableBands |-> <<Band("2", "1.5"), Band("3", Absent)>>,
     center |-> "2022-08-11T14:01:37.057"]

\* the two halves of a two-camera scene: the left camera looks west
LeftSub ==
    [BaseSub EXCEPT
        !.path = "33",
        !.imageData = [c \in Corners5 |->
                          CASE c = "UL" -> Point("-14.0", "-57.0")
                            [] c = "UR" -> Point("-14.5", "-53.0")
                            [] c = "LR" -> Point("-21.5", "-54.0")
                            [] c = "LL" -> Point("-21.0", "-58.5")
                            [] c = "CT" -> Point("-18.0", "-56.0")],
        !.boundingBox = [c \in Corners4 |->
                          CASE c = "UL" -> Point("-13.5", "-59.0")
                            [] c = "UR" -> Point("-13.5", "-52.5")
                            [] c = "LR" -> Point("-22.0", "-52.5")
                            [] c = "LL" -> Point("-22.0", "-59.0")],
        !.sunPosition = [elevation |-> "49.0", sunAzimuth |-> "38.0"],
        !.center = "2022-08-10T13:01:35.5"]

RightSub ==
    [LeftSub EXCEPT
        !.imageData = [c \in Corners5 |->
                          CASE c = "UL" -> Point("-14.5", "-53.5")
                            [] c = "UR" -> Point("-15.0", "-49.0")
                            [] c = "LR" -> Point("-22.0", "-50.0")
                            [] c = "LL" -> Point("-21.5", "-54.5")
                            [] c = "CT" -> Point("-18.5", "-51.5")],
        !.boundingBox = [c \in Corners4 |->
                          CASE c = "UL" -> Point("-14.0", "-54.0")
                            [] c = "UR" -> Point("-14.0", "-48.5")
                            [] c = "LR" -> Point("-22.5", "-48.5")
                            [] c = "LL" -> Point("-22.5", "-54.0")],
        !.sunPosition = [elevation |-> "49.5", sunAzimuth |-> "37.0"],
        !.attitudes = <<"1.5">>,
        !.ephemerides = <<"75.0">>]

SingleDoc(sub) == [own |-> sub, leftCamera |-> NoSub("none"), rightCamera |-> NoSub("none")]

DualDoc(l, r) == [own |-> NoSub("tree"), leftCamera |-> l, rightCamera |-> r]

NoDoc == SingleDoc(NoSub("none"))

\* a call's input: the path handed to create_item, and the file under it
\* ("xml": a well-formed document, "garbage": not XML, "nofile": no file)
XmlFile(href, d) == [asset_href |-> href, state |-> "xml", doc |-> d]

BadFile(href, st) == [asset_href |-> href, state |-> st, doc |-> NoDoc]

SINGLE_NAME == "AMAZONIA_1_WFI_20220811_036_018_L4_BAND2.xml"

LEFT_NAME == "AMAZONIA_1_WFI_20220810_033_018_L4_LEFT_BAND2.xml"

GoodNames ==
    {SINGLE_NAME,
     "tests/fixtures/" \o SINGLE_NAME,
     LEFT_NAME,
     "AMAZONIA_1_WFI_20220810_033_018_L4_RIGHT_BAND2.xml",
     "CBERS_4A_MUX_20220811_036_018_L2B_BAND16.xml",
     "A_B_AMAZONIA_1_WFI_20220811_036_018_L4_BAND2.xml",
     "AMAZONIA_1_WFI_20220811_036_018_L4_BAND2.tif"}

\* names that are not of the documented shape
OddNames ==
    {SINGLE_NAME \o "x",
     SINGLE_NAME \o ".bak",
     "AMAZONIA_1_WFI_20220811_036_018_L4_BAND2.tiff",
     "AMAZONIA_1_WFI_2022081_036_018_L4_BAND2.xml",
     "AMAZONIA_1_WFI_20220811_36_018_L4_BAND2.xml",
     "AMAZONIA_1_WFI_20220811_036_0018_L4_BAND2.xml",
     "AMAZONIA_1_WFI_20220811_036_018_L4_BAND.xml",
     "AMAZONIA_1_WFI_20220811_036_018_L4_BAND2.png",
     "AMAZONIA_1_WFI_20220811_036_018_L4_BAND2",
     "AMAZONIA_1_WFI_20220811_036_018_L4_MID_BAND2.xml",
     "AMAZONIA_1_WFI_20220811_036_018__BAND2.xml",
     "AMAZONIA_1_WFI_20220811_036_018_L4_band2.xml",
     "AMAZONIA_WFI_20220811_036_018_L4_BAND2.xml",
     "-AMAZONIA_1_WFI_20220811_036_018_L4_BAND2.xml",
     SINGLE_NAME \o "/readme.txt",
     "metadata.xml"}

NameInputs ==
    {XmlFile(n, SingleDoc(BaseSub)) : n \in GoodNames \cup OddNames}
        \cup {XmlFile(LEFT_NAME, DualDoc(LeftSub, RightSub))}
        \cup {BadFile(n, st) : n \in {SINGLE_NAME, SINGLE_NAME \o "x", "metadata.xml",
                                      "AMAZONIA_1_WFI_20220811_036_018_L4_BAND2.tif"},
                               st \in {"garbage", "nofile"}}

\* the identity of the scene: platforms the tables know, and platforms they
\* do not know
Platforms ==
    {<<"AMAZONIA", "1", "WFI">>, <<"CBERS", "4A", "MUX">>,
     <<"CBERS4", "A", "MUX">>, <<"CBERS", "4", "WFI">>}

WithIdentity(sub, p, pa, ro, le, da) ==
    [sub EXCEPT !.name = p[1], !.number = p[2], !.instrument = p[3],
                !.path = pa, !.row = ro, !.level = le,
                !.center = da \o "T14:01:37.057"]

IdInputs ==
    {XmlFile(SINGLE_NAME, SingleDoc(WithIdentity(BaseSub, p, pa, ro, "4", "2022-08-11"))) :
        p \in Platforms, pa \in {"36", "036", "6"}, ro \in {"18", "1"}}
      \cup
    {XmlFile(SINGLE_NAME,
             SingleDoc(WithIdentity(BaseSub, <<"AMAZONIA", "1", "WFI">>, "36", ro, le, da))) :
        ro \in {"18", "1"}, le \in {"4", "2B"}, da \in {"2022-08-11", "2022-08-01"}}
      \cup
    {XmlFile(SINGLE_NAME, SingleDoc([BaseSub EXCEPT !.path = pa])) :
        pa \in {"1036", "-6", "x36", ""}}
      \cup
    {XmlFile(SINGLE_NAME, SingleDoc([BaseSub EXCEPT !.center = c])) :
        c \in {"2022-08-11 14:01:37", "2022-08-11", "2022-08-11-14:01:37-03:00"}}
      \cup
    {XmlFile(LEFT_NAME,
             DualDoc(WithIdentity(LeftSub, p, "33", "18", "4", "2022-08-11"),
                     WithIdentity(RightSub, <<"CBERS", "4A", "WFI">>, "34", "19", "2",
                                  "2022-08-12"))) :
        p \in Platforms}

\* the viewing centre
CenterTexts ==
    {"2022-08-11T14:01:37.057", "2022-08-11T14:01:37", "2022-08-11 14:01:37.5",
     "2022-08-11T14:01:37.057+00:00", "2022-08-11T14:01:37-03:00",
     "2022-08-11T14:01", "2022-08-11", "2022-13-11T14:01:37", "2022-08-11T14:01:37.",
     "11/08/2022 14:01:37"}

TimeInputs ==
    {XmlFile(SINGLE_NAME, SingleDoc([BaseSub EXCEPT !.center = c])) : c \in CenterTexts}
      \cup
    {XmlFile(LEFT_NAME, DualDoc([LeftSub EXCEPT !.center = c], RightSub)) : c \in CenterTexts}

Inputs == NameInputs \cup TimeInputs

\* the geometry of the scene: the texts of the coordinates and angles
CoordTexts == {FloatStr(2 * k) : k \in (0 - MaxCoord)..MaxCoord}

ExtremeTexts == {FloatStr(0 - 2 * MaxCoord), FloatStr(2 * MaxCoord)}

WithBBox(sub, ll, ur) ==
    [sub EXCEPT !.boundingBox["LL"] = ll, !.boundingBox["UR"] = ur]

WithCenter(sub, ct) == [sub EXCEPT !.imageData["CT"] = ct]

WithSun(sub, el, az) == [sub EXCEPT !.sunPosition = [elevation |-> el, sunAzimuth |-> az]]

WithCorner(sub, c, pt) == [sub EXCEPT !.imageData[c] = pt]

\* one coordinate of the point replaced
SetCoord(pt, which, v) ==
    IF which = "latitude" THEN Point(v, pt.longitude) ELSE Point(pt.latitude, v)

Coords == {"latitude", "longitude"}

\* two-camera scenes: one bounding-box coordinate of each half varies
BBoxPairInputs ==
    {XmlFile(LEFT_NAME,
             DualDoc([LeftSub EXCEPT !.boundingBox[c] = SetCoord(@, w, a)],
                     [RightSub EXCEPT !.boundingBox[c] = SetCoord(@, w, b)])) :
        c \in {"LL", "UR"}, w \in Coords, a \in CoordTexts, b \in CoordTexts}

\* two-camera scenes: every bounding-box coordinate is at an extreme
BBoxExtremeInputs ==
    {XmlFile(LEFT_NAME,
             DualDoc(WithBBox(LeftSub, Point(a[1], a[2]), Point(a[3], a[4])),
                     WithBBox(RightSub, Point(b[1], b[2]), Point(b[3], b[4])))) :
        a \in [1..4 -> ExtremeTexts], b \in [1..4 -> ExtremeTexts]}

\* single-camera scenes: the bounding box varies
BBoxSingleInputs ==
    {XmlFile(SINGLE_NAME, SingleDoc(WithBBox(BaseSub, Point(a[1], a[2]), Point(a[3], a[4])))) :
        a \in [1..4 -> ExtremeTexts]}
      \cup
    {XmlFile(SINGLE_NAME, SingleDoc([BaseSub EXCEPT !.boundingBox[c] = SetCoord(@, w, a)])) :
        c \in {"LL", "UR"}, w \in Coords, a \in CoordTexts}

\* centre and sun angles of the two halves, or of the single camera
CenterSunInputs ==
    {XmlFile(LEFT_NAME,
             DualDoc([LeftSub EXCEPT !.imageData["CT"] = SetCoord(@, w, a)],
                     [RightSub EXCEPT !.imageData["CT"] = SetCoord(@, w, b)])) :
        w \in Coords, a \in CoordTexts, b \in CoordTexts}
      \cup
    {XmlFile(LEFT_NAME,
             DualDoc(WithSun(LeftSub, a, "38.0"), WithSun(RightSub, b, "37.0"))) :
        a \in CoordTexts, b \in CoordTexts}
      \cup
    {XmlFile(LEFT_NAME,
             DualDoc(WithSun(LeftSub, "49.0", a), WithSun(RightSub, "49.5", b))) :
        a \in CoordTexts, b \in CoordTexts}
      \cup
    {XmlFile(LEFT_NAME,
             DualDoc(WithSun(WithCenter(LeftSub, Point(a[1], a[2])), a[3], a[4]),
                     WithSun(WithCenter(RightSub, Point(a[2], a[1])), a[4], a[3]))) :
        a \in [1..4 -> ExtremeTexts]}
      \cup
    {XmlFile(SINGLE_NAME, SingleDoc(WithSun(WithCenter(BaseSub, Point(a, b)), b, a))) :
        a \in CoordTexts, b \in CoordTexts}

\* the corners of the footprint
CornerInputs ==
    {XmlFile(LEFT_NAME,
             DualDoc(WithCorner(LeftSub, c, Point(a, b)), WithCorner(RightSub, c, Point(b, a)))) :
        c \in Corners4, a \in CoordTexts, b \in CoordTexts}
      \cup
    {XmlFile(LEFT_NAME, DualDoc(WithCorner(LeftSub, c, Point(a, b)), RightSub)) :
        c \in Corners4, a \in ExtremeTexts, b \in ExtremeTexts}
      \cup
    {XmlFile(LEFT_NAME, DualDoc(LeftSub, WithCorner(RightSub, c, Point(a, b)))) :
        c \in Corners4, a \in ExtremeTexts, b \in ExtremeTexts}
      \cup
    {XmlFile(SINGLE_NAME, SingleDoc(WithCorner(BaseSub, c, Point(a, b)))) :
        c \in Corners4, a \in CoordTexts, b \in CoordTexts}

\* documents whose numbers do not read as numbers, or lack a camera
BrokenGeoInputs ==
    {XmlFile(LEFT_NAME, DualDoc(LeftSub, NoSub("none"))),
     XmlFile(LEFT_NAME, DualDoc(WithSun(LeftSub, "high", "38.0"), RightSub)),
     XmlFile(SINGLE_NAME, SingleDoc(WithSun(BaseSub, "high", "38.0"))),
     XmlFile(SINGLE_NAME, SingleDoc(WithCenter(BaseSub, Point("north", "0.0")))),
     XmlFile(SINGLE_NAME, SingleDoc(WithCorner(BaseSub, "UL", Point("north", "0.0")))),
     XmlFile(SINGLE_NAME, SingleDoc(WithBBox(BaseSub, Point("south", "0.0"), Point("1.0", "1.0")))),
     XmlFile(SINGLE_NAME, SingleDoc(BaseSub)),
     XmlFile(LEFT_NAME, DualDoc(LeftSub, RightSub))}

GeoInputs ==
    BBoxPairInputs \cup BBoxExtremeInputs \cup BBoxSingleInputs \cup CenterSunInputs
        \cup CornerInputs \cup BrokenGeoInputs

\* the projection the document reports
ProjectionNames == {"UTM", "LCC", "utm", "POLYCONIC", ""}

ProjectionInputs ==
    {XmlFile(SINGLE_NAME, SingleDoc([BaseSub EXCEPT !.projectionName = p])) :
        p \in ProjectionNames}
      \cup
    {XmlFile(LEFT_NAME, DualDoc([LeftSub EXCEPT !.projectionName = p], RightSub)) :
        p \in ProjectionNames}

\* the vertical velocity of the first ephemeris record
VelocityTexts == {"-100.0", "50.0", "0.0", "-0.0", "-0.25", "0.25", "-0", "down"}

VelocityInputs ==
    {XmlFile(SINGLE_NAME, SingleDoc([BaseSub EXCEPT !.ephemerides = <<v>>])) :
        v \in VelocityTexts}
      \cup
    {XmlFile(LEFT_NAME, DualDoc([LeftSub EXCEPT !.ephemerides = <<v>>], RightSub)) :
        v \in VelocityTexts}

\* the elements a subtree holds: a leaf of the satellite, image or viewing
\* node, a coordinate of a corner, a sun angle, or one of the three lists
LeafElements ==
    {<<"name">>, <<"number">>, <<"instrument">>, <<"path">>, <<"row">>, <<"level">>,
     <<"verticalPixelSize">>, <<"horizontalPixelSize">>, <<"projectionName">>,
     <<"originLatitude">>, <<"originLongitude">>, <<"center">>}

CornerElements ==
    {<<"imageData", c, w>> : c \in Corners5, w \in Coords}
        \cup {<<"boundingBox", c, w>> : c \in Corners4, w \in Coords}

SunElements == {<<"sunPosition", "elevation">>, <<"sunPosition", "sunAzimuth">>}

ListElements == {<<"attitudes">>, <<"ephemerides">>, <<"availableBands">>}

Elements == LeafElements \cup CornerElements \cup SunElements \cup ListElements

\* the subtree without the element e
Without(sub, e) ==
    CASE e \in LeafElements -> [sub EXCEPT ![e[1]] = Absent]
      [] e \in CornerElements -> [sub EXCEPT ![e[1]][e[2]][e[3]] = Absent]
      [] e \in SunElements -> [sub EXCEPT !.sunPosition[e[2]] = Absent]
      [] e = <<"attitudes">> -> [sub EXCEPT !.hasAttitudes = FALSE, !.attitudes = <<>>]
      [] e = <<"ephemerides">> -> [sub EXCEPT !.hasEphemerides = FALSE, !.ephemerides = <<>>]
      [] OTHER -> [sub EXCEPT !.hasBands = FALSE, !.availableBands = <<>>]

\* whether the subtree holds the element e
Holds(sub, e) ==
    CASE e \in LeafElements -> sub[e[1]] # Absent
      [] e \in CornerElements -> sub[e[1]][e[2]][e[3]] # Absent
      [] e \in SunElements -> sub.sunPosition[e[2]] # Absent
      [] e = <<"attitudes">> -> sub.hasAttitudes
      [] e = <<"ephemerides">> -> sub.hasEphemerides
      [] OTHER -> sub.hasBands

\* documents that lack one element, in the only camera, the left or the right
MissingInputs ==
    {XmlFile(SINGLE_NAME, SingleDoc(Without(BaseSub, e))) : e \in Elements}
      \cup
    {XmlFile(LEFT_NAME, DualDoc(Without(LeftSub, e), RightSub)) : e \in Elements}
      \cup
    {XmlFile(LEFT_NAME, DualDoc(LeftSub, Without(RightSub, e))) : e \in Elements}
      \cup
    {XmlFile(SINGLE_NAME, SingleDoc(BaseSub)), XmlFile(LEFT_NAME, DualDoc(LeftSub, RightSub))}

\* satellites and sensors, in the tables or not
PlatformTexts ==
    Platforms \cup
    {<<"CBERS", "4", "MUX">>, <<"CBERS", "4", "PAN5M">>, <<"CBERS", "4A", "WPM">>,
     <<"CBERS", "4A", "WFI">>, <<"AMAZONIA", "1", "MUX">>, <<"AMAZONIA", "2", "WFI">>,
     <<"amazonia", "1", "WFI">>, <<"LANDSAT", "8", "OLI">>, <<"CBERS4", "", "MUX">>,
     <<"CBERS", "-4", "MUX">>}

WithPlatform(sub, p) == [sub EXCEPT !.name = p[1], !.number = p[2], !.instrument = p[3]]

PlatformInputs ==
    {XmlFile(SINGLE_NAME, SingleDoc(WithPlatform(BaseSub, p))) : p \in PlatformTexts}
      \cup
    {XmlFile(LEFT_NAME, DualDoc(WithPlatform(LeftSub, p), RightSub)) : p \in PlatformTexts}

\* files converted one after another: good ones, the same path with another
\* content, and ones that fail at each step
RepeatInputs ==
    {XmlFile(SINGLE_NAME, SingleDoc(BaseSub)),
     XmlFile(SINGLE_NAME, SingleDoc([BaseSub EXCEPT !.row = "19"])),
     XmlFile("tests/fixtures/" \o SINGLE_NAME, SingleDoc(BaseSub)),
     XmlFile(LEFT_NAME, DualDoc(LeftSub, RightSub)),
     XmlFile(SINGLE_NAME, SingleDoc([BaseSub EXCEPT !.attitudes = <<>>])),
     XmlFile(SINGLE_NAME, SingleDoc(Without(BaseSub, <<"center">>))),
     XmlFile("metadata.xml", SingleDoc(BaseSub)),
     BadFile(SINGLE_NAME, "garbage")}

\* names the pattern accepts, of either extension and with either marker
PathNames ==
    GoodNames \cup
    {"AMAZONIA_1_WFI_20220810_033_018_L4_LEFT_BAND2.tif",
     "AMAZONIA_1_WFI_20220810_033_018_L4_RIGHT_BAND13.tif",
     "data/2022/AMAZONIA_1_WFI_20220810_033_018_L4_RIGHT_BAND2.xml",
     "AMAZONIA_1_WFI_20220811_036_018_LEFT_BAND2.xml"}

PathInputs ==
    {XmlFile(n, SingleDoc(BaseSub)) : n \in PathNames}
      \cup
    {XmlFile(n, DualDoc(LeftSub, RightSub)) : n \in PathNames}

\* the attitude and ephemeris records of the image: one or two of each
RollTexts == {"0.25", "-3.0"}

RecordLists(texts) == {<<a>> : a \in texts} \cup {<<a, b>> : a \in texts, b \in texts}

WithRecords(sub, att, eph) == [sub EXCEPT !.attitudes = att, !.ephemerides = eph]

RecordInputs ==
    {XmlFile(SINGLE_NAME, SingleDoc(WithRecords(BaseSub, att, eph))) :
        att \in RecordLists(RollTexts), eph \in RecordLists({"-100.0", "50.0"})}
      \cup
    {XmlFile(LEFT_NAME,
             DualDoc(WithRecords(LeftSub, att, <<"-100.0", "50.0">>),
                     WithRecords(RightSub, ratt, <<"50.0", "-100.0">>))) :
        att \in RecordLists(RollTexts), ratt \in RecordLists(RollTexts)}
      \cup
    {XmlFile(SINGLE_NAME, SingleDoc(WithRecords(BaseSub, <<>>, <<"-100.0">>))),
     XmlFile(SINGLE_NAME, SingleDoc(WithRecords(BaseSub, <<"0.25">>, <<>>)))}

\* documents by the cameras under their root: each of the left and the
\* right camera missing, without children or complete, the root with or
\* without a scene of its own
CameraKinds(sub) == {NoSub("none"), NoSub("empty"), sub}

CameraInputs ==
    {XmlFile(LEFT_NAME, [own |-> o, leftCamera |-> l, rightCamera |-> r]) :
        o \in {NoSub("tree"), BaseSub}, l \in CameraKinds(LeftSub),
        r \in CameraKinds(RightSub)}

\* the documents that differ in what they hold besides the geometry
DocInputs ==
    ProjectionInputs \cup VelocityInputs \cup MissingInputs \cup PlatformInputs
        \cup PathInputs \cup RecordInputs \cup CameraInputs

(***************************************************************************)
(* The state machine: one call of create_item at a time, each step of the  *)
(* call in the order of the code                                           *)
(***************************************************************************)
VARIABLES
    pc,         \* where the current call stands
    input,      \* the current call's path and the file under it
    opened,     \* ET.parse has been called in the current call
    cbers_am,   \* the mapping _get_keys_from_cbers_am returned
    item,       \* the item create_item returned
    err,        \* the exception the call ended with
    last,       \* id and identity of the latest call that returned an item
    seen        \* an earlier call, with what it was given and how it ended

vars == <<pc, input, opened, cbers_am, item, err, last, seen>>

NoKeys == [none |-> TRUE]

NoItem == [none |-> TRUE]

NoInput == BadFile("", "nofile")

\* no earlier call is remembered
NoOutcome ==
    [valid |-> FALSE, other |-> FALSE, input |-> NoInput, pc |-> "idle", err |-> "",
     keys |-> NoKeys, item |-> NoItem]

\* the seven components the identifier is made of, as the call extracted them
Identity(md) ==
    [mission |-> md.mission, number |-> md.number, sensor |-> md.sensor,
     day |-> md.acquisition_day, path |-> IntVal(md.path), row |-> IntVal(md.row),
     level |-> md.processing_level]

Init ==
    /\ pc = "idle"
    /\ input = NoInput
    /\ opened = FALSE
    /\ cbers_am = NoKeys
    /\ item = NoItem
    /\ err = ""
    /\ last = [valid |-> FALSE, id |-> "", identity |-> Identity(GetKeys(SINGLE_NAME, SingleDoc(BaseSub)))]
    /\ seen = NoOutcome

\* a call starts: nothing of the call before is left (line 415: the mapping
\* is a new one in every call)
Begin_SharedMapping(in) ==
    /\ pc \in {"idle", "done", "failed"}
    /\ pc' = "called"
    /\ input' = in
    /\ opened' = FALSE
    /\ cbers_am' = cbers_am
    /\ item' = NoItem
    /\ err' = ""

Begin(in) ==
    /\ pc \in {"idle", "done", "failed"}
    /\ pc' = "called"
    /\ input' = in
    /\ opened' = FALSE
    /\ cbers_am' = NoKeys
    /\ item' = NoItem
    /\ err' = ""

\* create_item(asset_href) is called
Call(in) ==
    /\ Begin(in)
    /\ last' = IF pc = "done"
               THEN [valid |-> TRUE, id |-> item.id, identity |-> Identity(cbers_am)]
               ELSE last
    /\ seen' = seen

\* the call that has just ended, as it is remembered
Outcome ==
    [valid |-> TRUE, other |-> FALSE, input |-> input, pc |-> pc, err |-> err,
     keys |-> cbers_am, item |-> item]

\* create_item(asset_href) is called after an earlier call; either the call
\* that has just ended is remembered from now on, or the remembered one is
\* kept, noting whether a call on another input came after it
CallAgain(in) ==
    /\ Begin(in)
    /\ last' = last
    /\ seen' \in
          IF pc = "idle" THEN {seen}
          ELSE {Outcome,
                [seen EXCEPT !.other = seen.other \/ (seen.valid /\ input # seen.input)]}

\* lines 417-418: the file name is matched, and the match asserted
NameMatches(cb_am_metadata) == ReMatches(TIF_XML_REGEX, Basename(cb_am_metadata))

MatchName ==
    /\ pc = "called"
    /\ LET match == NameMatches(input.asset_href)
       IN  /\ pc' = IF match THEN "matched" ELSE "failed"
           /\ err' = IF match THEN "" ELSE "AssertionError"
    /\ UNCHANGED <<input, opened, cbers_am, item, last, seen>>

\* lines 420-421: the document is opened and parsed
ParseXml ==
    /\ pc = "matched"
    /\ opened' = TRUE
    /\ pc' = IF input.state = "xml" THEN "parsed" ELSE "failed"
    /\ err' = CASE input.state = "xml" -> ""
                [] input.state = "garbage" -> "ParseError"
                [] OTHER -> "FileNotFoundError"
    /\ UNCHANGED <<input, cbers_am, item, last, seen>>

\* lines 423-615: the keys are read, merged and derived
ExtractKeys ==
    /\ pc = "parsed"
    /\ LET e == ExtractError(input.doc)
       IN  /\ pc' = IF e = "" THEN "extracted" ELSE "failed"
           /\ err' = e
           /\ cbers_am' = IF e = "" THEN GetKeys(input.asset_href, input.doc) ELSE NoKeys
    /\ UNCHANGED <<input, opened, item, last, seen>>

\* lines 808-893: the item is assembled and returned
AssembleItem ==
    /\ pc = "extracted"
    /\ LET e == ItemError(cbers_am)
       IN  /\ pc' = IF e = "" THEN "done" ELSE "failed"
           /\ err' = e
           /\ item' = IF e = "" THEN BuildItem(cbers_am, input.asset_href) ELSE NoItem
    /\ UNCHANGED <<input, opened, cbers_am, last, seen>>

Next ==
    \/ \E in \in Inputs : Call(in)
    \/ MatchName
    \/ ParseXml
    \/ ExtractKeys
    \/ AssembleItem

Spec == Init /\ [][Next]_vars

\* calls that differ in the identity of the scene
NextId ==
    \/ \E in \in IdInputs : Call(in)
    \/ MatchName
    \/ ParseXml
    \/ ExtractKeys
    \/ AssembleItem

SpecId == Init /\ [][NextId]_vars

\* one call for each geometry
InitGeo ==
    /\ pc = "called"
    /\ input \in GeoInputs
    /\ opened = FALSE
    /\ cbers_am = NoKeys
    /\ item = NoItem
    /\ err = ""
    /\ last = [valid |-> FALSE, id |-> "", identity |-> Identity(GetKeys(SINGLE_NAME, SingleDoc(BaseSub)))]
    /\ seen = NoOutcome

NextGeo ==
    \/ MatchName
    \/ ParseXml
    \/ ExtractKeys
    \/ AssembleItem

SpecGeo == InitGeo /\ [][NextGeo]_vars

\* calls one after another, an earlier one remembered
NextRepeat ==
    \/ \E in \in RepeatInputs : CallAgain(in)
    \/ MatchName
    \/ ParseXml
    \/ ExtractKeys
    \/ AssembleItem

SpecRepeat == Init /\ [][NextRepeat]_vars

\* one call for each document
InitDoc ==
    /\ pc = "called"
    /\ input \in DocInputs
    /\ opened = FALSE
    /\ cbers_am = NoKeys
    /\ item = NoItem
    /\ err = ""
    /\ last = [valid |-> FALSE, id |-> "", identity |-> Identity(GetKeys(SINGLE_NAME, SingleDoc(BaseSub)))]
    /\ seen = NoOutcome

NextDoc ==
    \/ MatchName
    \/ ParseXml
    \/ ExtractKeys
    \/ AssembleItem

SpecDoc == InitDoc /\ [][NextDoc]_vars

(***************************************************************************)
(* Properties                                                              *)
(***************************************************************************)
Returned == pc = "done"

Doc == input.doc

Primary == PrimaryRoot(input.doc)

LeftCam == input.doc.leftCamera

RightCam == input.doc.rightCamera

\* the value of a coordinate or angle text of the document
Num(text) == FloatVal(text)

\* a base name of the documented shape, from its first to its last character
DocumentedName(s) == Len(s) \in EndsFrom(TIF_XML_REGEX, 1, s, {0})

\* C1: a call whose file's base name is not of the shape
\* SATELLITE_MISSION_CAMERA_DATE_PATH_ROW_LEVEL[_LEFT|_RIGHT]_BANDnn.(tif|xml)
\* goes no further than the name check: it has failed with the assertion's
\* error and the document has not been opened.
C1_BadNameFailsBeforeParse ==
    (pc \notin {"idle", "called"} /\ ~DocumentedName(Basename(input.asset_href)))
        => (pc = "failed" /\ err = "AssertionError" /\ ~opened)

\* the date part of a viewing-centre text: what stands before the T or the
\* space that separates date and time
DayOf(center) ==
    LET seps == {i \in 1..Len(center) : Ch(center, i) \in {"T", " "}}
    IN  IF seps = {} THEN center ELSE SubSeq(center, 1, Min(seps) - 1)

ExpectedId(sub) ==
    sub.name \o "_" \o sub.number \o "_" \o sub.instrument \o "_"
        \o RemoveChar(DayOf(sub.center), "-") \o "_"
        \o Fmt03d(IntVal(sub.path)) \o "_" \o Fmt03d(IntVal(sub.row))
        \o "_L" \o sub.level

\* C2: the id of a returned item is
\* {mission}_{number}_{sensor}_{day without dashes}_{path:03d}_{row:03d}_L{level},
\* the seven components being those of the document's primary subtree.
C2_IdFormat == Returned => item.id = ExpectedId(Primary)

C2_Witness ==
    /\ Returned
    /\ Primary.path = "6"
    /\ item.id = "AMAZONIA_1_WFI_20220811_006_018_L4"

\* C3: of two calls that returned an item, the ids are equal exactly when
\* the extracted (mission, number, sensor, day, path, row, level) are equal,
\* path and row taken as integers.
C3_IdOneToOne ==
    (Returned /\ last.valid) => ((item.id = last.id) <=> (Identity(cbers_am) = last.identity))

C3_Witness ==
    /\ Returned
    /\ last.valid
    /\ item.id = last.id
    /\ Primary.path = "036"

\* C4: the bbox of a returned item is [lon_ll, lat_ll, lon_ur, lat_ur]; for
\* a two-camera document LL is the component-wise minimum of the halves'
\* bounding-box LL corners and UR the component-wise maximum of their UR
\* corners; for a single-camera document they are its own LL and UR.
C4_BBoxMerge ==
    Returned =>
        IF IsDual(Doc)
        THEN item.bbox =
                <<Min({Num(LeftCam.boundingBox["LL"].longitude),
                       Num(RightCam.boundingBox["LL"].longitude)}),
                  Min({Num(LeftCam.boundingBox["LL"].latitude),
                       Num(RightCam.boundingBox["LL"].latitude)}),
                  Max({Num(LeftCam.boundingBox["UR"].longitude),
                       Num(RightCam.boundingBox["UR"].longitude)}),
                  Max({Num(LeftCam.boundingBox["UR"].latitude),
                       Num(RightCam.boundingBox["UR"].latitude)})>>
        ELSE item.bbox =
                <<Num(Doc.own.boundingBox["LL"].longitude),
                  Num(Doc.own.boundingBox["LL"].latitude),
                  Num(Doc.own.boundingBox["UR"].longitude),
                  Num(Doc.own.boundingBox["UR"].latitude)>>

C4_Witness ==
    /\ Returned
    /\ IsDual(Doc)
    /\ Num(RightCam.boundingBox["LL"].latitude) < Num(LeftCam.boundingBox["LL"].latitude)
    /\ Num(RightCam.boundingBox["UR"].longitude) > Num(LeftCam.boundingBox["UR"].longitude)
    /\ item.bbox[2] = Num(RightCam.boundingBox["LL"].latitude)
    /\ item.bbox[3] = Num(RightCam.boundingBox["UR"].longitude)

BBoxOrdered == item.bbox[1] <= item.bbox[3] /\ item.bbox[2] <= item.bbox[4]

\* the subtree's own bounding box has its LL corner south-west of its UR
\* corner
BoxOrdered(sub) ==
    /\ Num(sub.boundingBox["LL"].longitude) <= Num(sub.boundingBox["UR"].longitude)
    /\ Num(sub.boundingBox["LL"].latitude) <= Num(sub.boundingBox["UR"].latitude)

\* C5 as stated: in every returned item, whatever the corners in the
\* document, bbox[0] <= bbox[2] and bbox[1] <= bbox[3].
C5_BBoxAlwaysOrdered == Returned => BBoxOrdered

\* C5 as amended: when the bounding box of every camera subtree of the
\* document has its LL corner at or below its UR corner in both latitude
\* and longitude, the returned item has bbox[0] <= bbox[2] and
\* bbox[1] <= bbox[3].
C5_BBoxOrderedForOrderedBoxes ==
    (/\ Returned
     /\ IF IsDual(Doc) THEN BoxOrdered(LeftCam) /\ BoxOrdered(RightCam)
        ELSE BoxOrdered(Doc.own))
        => BBoxOrdered

C5_Witness ==
    /\ Returned
    /\ IsDual(Doc)
    /\ BoxOrdered(LeftCam)
    /\ BoxOrdered(RightCam)
    /\ Num(LeftCam.boundingBox["UR"].latitude) < Num(RightCam.boundingBox["LL"].latitude)
    /\ BBoxOrdered

\* C6: for a two-camera document the extracted centre latitude, centre
\* longitude, sun elevation and sun azimuth are the means of the two
\* halves' values, and the item's view:sun_elevation and view:sun_azimuth
\* carry those means.
C6_Means ==
    (pc \in {"extracted", "done"} /\ IsDual(Doc)) =>
        /\ 2 * Num(cbers_am.ct_lat)
              = Num(LeftCam.imageData["CT"].latitude) + Num(RightCam.imageData["CT"].latitude)
        /\ 2 * Num(cbers_am.ct_lon)
              = Num(LeftCam.imageData["CT"].longitude) + Num(RightCam.imageData["CT"].longitude)
        /\ 2 * Num(cbers_am.sun_elevation)
              = Num(LeftCam.sunPosition.elevation) + Num(RightCam.sunPosition.elevation)
        /\ 2 * Num(cbers_am.sun_azimuth)
              = Num(LeftCam.sunPosition.sunAzimuth) + Num(RightCam.sunPosition.sunAzimuth)
        /\ Returned =>
              /\ 2 * item.properties.view_sun_elevation
                    = Num(LeftCam.sunPosition.elevation) + Num(RightCam.sunPosition.elevation)
              /\ 2 * item.properties.view_sun_azimuth
                    = Num(LeftCam.sunPosition.sunAzimuth) + Num(RightCam.sunPosition.sunAzimuth)

C6_Witness ==
    /\ Returned
    /\ IsDual(Doc)
    /\ LeftCam.sunPosition.elevation = "-0.5"
    /\ RightCam.sunPosition.elevation = "0.0"
    /\ cbers_am.sun_elevation = "-0.25"
    /\ item.properties.view_sun_elevation = Num("-0.25")

\* the point (lon, lat) of a corner of a subtree's image data
LonLat(sub, c) == <<Num(sub.imageData[c].longitude), Num(sub.imageData[c].latitude)>>

\* C7: for a two-camera document the footprint's upper-left and lower-left
\* corners are the left camera's image-data UL and LL, and its upper-right
\* and lower-right corners are the right camera's UR and LR.
C7_FootprintSides ==
    (pc \in {"extracted", "done"} /\ IsDual(Doc)) =>
        /\ cbers_am.ul_lat = LeftCam.imageData["UL"].latitude
        /\ cbers_am.ul_lon = LeftCam.imageData["UL"].longitude
        /\ cbers_am.ll_lat = LeftCam.imageData["LL"].latitude
        /\ cbers_am.ll_lon = LeftCam.imageData["LL"].longitude
        /\ cbers_am.ur_lat = RightCam.imageData["UR"].latitude
        /\ cbers_am.ur_lon = RightCam.imageData["UR"].longitude
        /\ cbers_am.lr_lat = RightCam.imageData["LR"].latitude
        /\ cbers_am.lr_lon = RightCam.imageData["LR"].longitude
        /\ Returned =>
              {item.geometry.coordinates[1][1][i] : i \in 1..5}
                  = {LonLat(LeftCam, "UL"), LonLat(LeftCam, "LL"),
                     LonLat(RightCam, "UR"), LonLat(RightCam, "LR")}

C7_Witness ==
    /\ Returned
    /\ IsDual(Doc)
    /\ \A c \in Corners4 : LonLat(LeftCam, c) # LonLat(RightCam, c)
    /\ cbers_am.ur_lat = RightCam.imageData["UR"].latitude
    /\ cbers_am.ul_lat = LeftCam.imageData["UL"].latitude

\* the footprint corner c of the document: for two cameras the west
\* corners are the left camera's and the east corners the right camera's
FootprintCorner(c) ==
    IF IsDual(Doc) /\ c \in {"UR", "LR"} THEN LonLat(RightCam, c) ELSE LonLat(Primary, c)

\* C8: the geometry of a returned item holds one polygon of one ring of
\* five (lon, lat) points, in the order lower-left, lower-right,
\* upper-right, upper-left, lower-left.
C8_ClosedRing ==
    Returned =>
        /\ Len(item.geometry.coordinates) = 1
        /\ Len(item.geometry.coordinates[1]) = 1
        /\ item.geometry.coordinates[1][1]
              = <<FootprintCorner("LL"), FootprintCorner("LR"), FootprintCorner("UR"),
                  FootprintCorner("UL"), FootprintCorner("LL")>>

C8_Witness ==
    /\ Returned
    /\ Cardinality({FootprintCorner(c) : c \in Corners4}) = 4
    /\ item.geometry.coordinates[1][1][5] = item.geometry.coordinates[1][1][1]
    /\ item.geometry.coordinates[1][1][4] # item.geometry.coordinates[1][1][1]

\* the time of day of a viewing-centre text, what follows the eleventh
\* character, and the same filled up to whole seconds
TimeOf(center) == IF Len(center) > 10 THEN SubSeq(center, 12, Len(center)) ELSE ""

ZeroFilled(clock) ==
    CASE Len(clock) = 0 -> "00:00:00"
      [] Len(clock) = 2 -> clock \o ":00:00"
      [] Len(clock) = 5 -> clock \o ":00"
      [] OTHER -> clock

UtmZone(lon) == ((lon + 4 * 180) \div (4 * 6)) + 1

UtmEpsg(lat, lon) == IF lat >= 0 THEN 32600 + UtmZone(lon) ELSE 32700 + UtmZone(lon)

\* C10: the projection code of a returned item is that of the UTM zone of
\* the scene's centre: 32600 + zone in the north, 32700 + zone in the south.
C10_EpsgFromUtmZone ==
    Returned => item.proj_epsg = UtmEpsg(Num(cbers_am.ct_lat), Num(cbers_am.ct_lon))

\* C11: a document whose projection name is not "UTM" gives no item: every
\* returned item comes from a document that reports "UTM".
C11_OnlyUtmReturns == Returned => Primary.projectionName = "UTM"

\* C12: the sat:orbit_state of a returned item is "descending" exactly when
\* the extracted vertical velocity is below zero, and "ascending" otherwise,
\* zero included.
C12_OrbitState ==
    Returned =>
        /\ item.properties.sat_orbit_state \in {"descending", "ascending"}
        /\ item.properties.sat_orbit_state = "descending" <=> Num(cbers_am.vz) < 0
        /\ Num(cbers_am.vz) = 0 => item.properties.sat_orbit_state = "ascending"

C12_Witness ==
    /\ Returned
    /\ cbers_am.vz = "0.0"
    /\ item.properties.sat_orbit_state = "ascending"

\* C13: a returned item holds, for every band n of the extracted list of
\* available bands, an asset under the key Bn.
C13_AssetPerBand ==
    Returned =>
        \A i \in DOMAIN cbers_am.bands : ("B" \o cbers_am.bands[i]) \in DOMAIN item.assets

\* the extraction has run on the parsed document
Extraction == opened /\ input.state = "xml" /\ pc \in {"extracted", "done", "failed"}

\* the elements that may not be missing: the identity of the satellite,
\* path, row and level, the corners, the sun angles, the list of bands and
\* the viewing centre
RequiredElements ==
    {<<"name">>, <<"number">>, <<"instrument">>, <<"path">>, <<"row">>, <<"level">>,
     <<"center">>, <<"availableBands">>}
        \cup CornerElements \cup SunElements

\* the elements of the right camera that the merged values are read from
MergedElements ==
    {<<"imageData", c, w>> : c \in {"UR", "LR", "CT"}, w \in Coords}
        \cup {<<"boundingBox", c, w>> : c \in {"LL", "UR"}, w \in Coords}
        \cup SunElements

\* C14: when a required element is missing from the subtree the values are
\* read from (the only camera's, or the left camera's; for two cameras also
\* the right camera's corners, centre, sun angles and bounding corners that
\* are merged), the extraction fails with the error of reading a missing
\* element and yields no mapping.
C14_MissingElementFails ==
    (/\ Extraction
     /\ \/ \E e \in RequiredElements : ~Holds(Primary, e)
        \/ /\ LeftCam.kind = "tree"
           /\ \E e \in MergedElements : ~Holds(RightCam, e))
        => (pc = "failed" /\ err = "AttributeError" /\ "none" \in DOMAIN cbers_am)

C14_Witness ==
    /\ Extraction
    /\ ~Holds(Primary, <<"center">>)
    /\ \A e \in RequiredElements \ {<<"center">>} : Holds(Primary, e)
    /\ pc = "failed"
    /\ err = "AttributeError"

\* the assembly of the item has run on an extracted mapping
Assembly == pc \in {"done", "failed"} /\ "none" \notin DOMAIN cbers_am

\* the keys the tables are read with
MissionKey == Primary.name \o "-" \o Primary.number

CameraKey == Primary.name \o Primary.number

InTables ==
    /\ MissionKey \in DOMAIN CBERS_AM_MISSIONS
    /\ CameraKey \in DOMAIN BASE_CAMERA
    /\ Primary.instrument \in DOMAIN BASE_CAMERA[CameraKey]

\* C15: when {mission}-{number} is not a key of CBERS_AM_MISSIONS, or
\* {mission}{number} and the sensor are not keys of BASE_CAMERA, the call
\* fails and returns no item; when they are, the gsd of a returned item is
\* the first gsd of the sensor's summary and its international designator
\* is that of the mission.
C15_CatalogLookups ==
    Assembly =>
        IF InTables
        THEN Returned =>
                /\ item.properties.gsd = BASE_CAMERA[CameraKey][Primary.instrument].gsd[1]
                /\ item.properties.sat_platform_international_designator
                      = CBERS_AM_MISSIONS[MissionKey].international_designator
        ELSE pc = "failed" /\ err = "KeyError" /\ "none" \in DOMAIN item

C15_Witness ==
    /\ Returned
    /\ Primary.name = "CBERS"
    /\ Primary.number = "4A"
    /\ Primary.instrument = "WPM"
    /\ item.properties.gsd = Num("2.0")
    /\ item.properties.sat_platform_international_designator = "2019-093E"

\* the current call has ended
Ended == pc \in {"done", "failed"}

LevelGroup == OpticsGroup - 1

Stem(b) == SubSeq(b, 1, MatchPath(TIF_XML_REGEX, 1, b, 0)[LevelGroup])

\* C17: for a file name of the documented shape, .tif or .xml, with or
\* without _LEFT or _RIGHT, the extracted download path is
\* {mission}{number}/{sensor}/{path:03d}/{row:03d}/ followed by the base name
\* without its optics marker, its _BANDnn part and its extension.
C17_DownloadPath ==
    (pc \in {"extracted", "done"} /\ DocumentedName(Basename(input.asset_href))) =>
        cbers_am.download_url
            = Primary.name \o Primary.number \o "/" \o Primary.instrument \o "/"
                \o Fmt03d(IntVal(Primary.path)) \o "/" \o Fmt03d(IntVal(Primary.row)) \o "/"
                \o Stem(Basename(input.asset_href))

\* C18: the extracted roll and vertical velocity are those of the first
\* attitude record and the first ephemeris record of the image the values
\* are read from (the left camera's for two cameras), and the item's
\* view:off_nadir and sat:orbit_state come from these two: neither later
\* records nor the right camera's records take part.
C18_FirstRecords ==
    (pc \in {"extracted", "done"} /\ Primary.attitudes # <<>> /\ Primary.ephemerides # <<>>) =>
        /\ cbers_am.roll = Primary.attitudes[1]
        /\ cbers_am.vz = Primary.ephemerides[1]
        /\ Returned =>
              /\ item.properties.view_off_nadir
                    = IF Num(Primary.attitudes[1]) < 0 THEN 0 - Num(Primary.attitudes[1])
                      ELSE Num(Primary.attitudes[1])
              /\ item.properties.sat_orbit_state
                    = IF Num(Primary.ephemerides[1]) < 0 THEN "descending" ELSE "ascending"

C18_Witness ==
    /\ Returned
    /\ LeftCam.kind = "tree"
    /\ LeftCam.attitudes = <<"0.25", "-3.0">>
    /\ RightCam.attitudes = <<"-3.0">>
    /\ RightCam.ephemerides[1] = "50.0"
    /\ cbers_am.roll = "0.25"
    /\ cbers_am.vz = "-100.0"
    /\ item.properties.view_off_nadir = Num("0.25")
    /\ item.properties.sat_orbit_state = "descending"

\* C19: a document with a left camera subtree and no right camera makes
\* the extraction fail, with no mapping; and whenever a mapping is
\* extracted from a document with a left camera subtree, its east corners
\* are the right camera's, not the left camera's alone.
C19_LeftNeedsRight ==
    /\ (Extraction /\ LeftCam.kind = "tree" /\ RightCam.kind = "none")
          => (pc = "failed" /\ err = "AttributeError" /\ "none" \in DOMAIN cbers_am)
    /\ (pc \in {"extracted", "done"} /\ LeftCam.kind = "tree")
          => /\ RightCam.kind = "tree"
             /\ cbers_am.ur_lat = RightCam.imageData["UR"].latitude
             /\ cbers_am.lr_lon = RightCam.imageData["LR"].longitude

C19_Witness ==
    /\ Extraction
    /\ LeftCam.kind = "tree"
    /\ RightCam.kind = "none"
    /\ Doc.own.kind = "tree"
    /\ Doc.own.name = "AMAZONIA"
    /\ pc = "failed"
    /\ err = "AttributeError"

====
